---- MODULE Spec2Model ----
(***************************************************************************)
(* The wasmruntime embedding driver of Zong (wasmruntime/src/main.rs): the *)
(* driver's run from argument check to exit, the three host functions      *)
(* print, print_bytes and read_line, and the guest module they serve.      *)
(*                                                                         *)
(* Machine integers keep their width.  A u32 or i32 is a pair of 16-bit    *)
(* limbs <<low, high>>, a u64 or usize (64-bit host) is four limbs, least  *)
(* significant first; arithmetic carries from limb to limb and wraps at    *)
(* the word's width, so that 2^31, 2^32 and 2^64 are where they are in the *)
(* program.  Guest memory is a number of 64 KiB pages and the map of its   *)
(* non-zero bytes (linear memory starts zeroed).                           *)
(***************************************************************************)
EXTENDS Integers, Sequences, FiniteSets, TLC

VARIABLES
    pc,        \* the driver's position in main
    argc,      \* args.len()
    guest,     \* the guest module file named by args[1]
    pages,     \* current size of the guest's linear memory, in pages
    mem,       \* the non-zero bytes of linear memory: address -> byte
    tstack,    \* the bits of the guest's tstack global
    stdout,    \* the bytes written to standard output
    stderr,    \* the number of error reports written to standard error
    exitCode,  \* the process's exit status, -1 while it runs
    steps,     \* guest steps taken (host calls, stores, cursor writes, main's end)
    last,      \* the last host call: its arguments, what it saw, its outcome
    resv       \* the reservations made since the guest last wrote tstack

vars == <<pc, argc, guest, pages, mem, tstack, stdout, stderr, exitCode, steps, last, resv>>

----------------------------------------------------------------------------
(* Bounds of the model. *)

MaxSteps == 2        \* guest steps per run
MaxLineLen == 2      \* bytes before the terminator in a line of input
MaxGrow == 1         \* pages the guest may add with memory.grow

----------------------------------------------------------------------------
(* Machine words. *)

LimbBase == 256 * 256
LimbMax == LimbBase - 1

U32Zero == <<0, 0>>
WordZero == <<0, 0, 0, 0>>

\* `x as usize` for x: u32 (main.rs:57) and `as u64` for a usize (main.rs:83).
ZeroExt(u) == <<u[1], u[2], 0, 0>>

\* Mutant: the length cut to 32 bits, as on a host whose usize is a u32.
LenAsUsize32(length) == <<length[1], length[2], 0, 0>>

\* `length as usize` (main.rs:57): a u64 is a usize on the 64-bit host.
LenAsUsize(length) == length

\* An i32's sign bit.
Negative(i) == i[2] >= LimbBase \div 2

\* `x as usize` for x: i32 (main.rs:39, 74, 88): sign extension.
SignExt(i) == IF Negative(i) THEN <<i[1], i[2], LimbMax, LimbMax>> ELSE ZeroExt(i)

\* `x as u32` and `x as i32` for x: usize (main.rs:91, 98): the low 32 bits.
Trunc32(w) == <<w[1], w[2]>>

\* `input_bytes.len()` (main.rs:83, 94, 98): a small length as a usize.
FromLen(k) == <<k % LimbBase, k \div LimbBase, 0, 0>>

\* usize addition: the wrapped sum and whether it overflowed the word.
AddWord(a, b) ==
    LET s1 == a[1] + b[1]
        s2 == a[2] + b[2] + s1 \div LimbBase
        s3 == a[3] + b[3] + s2 \div LimbBase
        s4 == a[4] + b[4] + s3 \div LimbBase
    IN  [val |-> <<s1 % LimbBase, s2 % LimbBase, s3 % LimbBase, s4 % LimbBase>>,
         ovf |-> s4 >= LimbBase]

\* a < b and a <= b for usize.
LtWord(a, b) ==
    \/ a[4] < b[4]
    \/ a[4] = b[4] /\ a[3] < b[3]
    \/ a[4] = b[4] /\ a[3] = b[3] /\ a[2] < b[2]
    \/ a[4] = b[4] /\ a[3] = b[3] /\ a[2] = b[2] /\ a[1] < b[1]

LeqWord(a, b) == a = b \/ LtWord(a, b)

\* u32::to_le_bytes (main.rs:105, 118).
U32ToLe(u) == <<u[1] % 256, u[1] \div 256, u[2] % 256, u[2] \div 256>>

\* u64::to_le_bytes (main.rs:108, 121).
U64ToLe(w) == <<w[1] % 256, w[1] \div 256, w[2] % 256, w[2] \div 256,
                w[3] % 256, w[3] \div 256, w[4] % 256, w[4] \div 256>>

\* u32::from_le_bytes (main.rs:38-43).
U32FromLe(b) == <<b[1] + 256 * b[2], b[3] + 256 * b[4]>>

\* Mutant: only the low four bytes of the length are decoded.
U64FromLeLow(b) == <<b[1] + 256 * b[2], b[3] + 256 * b[4], 0, 0>>

\* u64::from_le_bytes (main.rs:45-54).
U64FromLe(b) == <<b[1] + 256 * b[2], b[3] + 256 * b[4],
                  b[5] + 256 * b[6], b[7] + 256 * b[8]>>

----------------------------------------------------------------------------
(* Guest linear memory. *)

\* memory.data(..).len(): the byte size of a memory of p pages of 2^16 bytes
\* (p <= 2^16).
MemLen(p) == <<0, p % LimbBase, p \div LimbBase, 0>>

\* data[a] for an address inside the memory.
Load(m, a) == IF a \in DOMAIN m THEN m[a] ELSE 0

\* The address a + i, for a small i, inside the memory (no overflow there).
Offset(a, i) == AddWord(a, FromLen(i)).val

\* data[a .. a + Len(bytes)].copy_from_slice(bytes), the range inside the memory.
Store(m, a, bytes) ==
    LET at  == {Offset(a, i - 1) : i \in 1..Len(bytes)}
        w   == [x \in at |-> bytes[((x[1] - a[1]) % LimbBase) + 1]]
        new == w @@ m
    IN  [x \in {y \in DOMAIN new : new[y] # 0} |-> new[x]]

\* &data[a .. a + n] as a byte string, the range inside the memory.
Bytes(m, a, n) == [i \in 1..n |-> Load(m, Offset(a, i - 1))]

\* A range expression data[s .. e] whose ends were computed by usize additions
\* sR and eR: an overflowing addition panics in a build with overflow checks
\* (chk) and wraps in one without; the slice panics unless s <= e <= len.
RangeOk(sR, eR, len, chk) ==
    /\ ~(chk /\ (sR.ovf \/ eR.ovf))
    /\ LeqWord(sR.val, eR.val)
    /\ LeqWord(eR.val, len)

Exact(a) == [val |-> a, ovf |-> FALSE]

\* The number of bytes of a range that lies inside the memory.
ToNat(w) == w[1] + LimbBase * w[2]

----------------------------------------------------------------------------
(* The slice descriptor: items_ptr (u32, little-endian) at offset 0 and      *)
(* length (u64, little-endian) at offset 8.                                  *)

\* The byte offsets print_bytes reads, in the order it reads them.
DescOffsets == <<0, 1, 2, 3, 8, 9, 10, 11, 12, 13, 14, 15>>

\* items_ptr and length as print_bytes decodes them from data at idx.
DecodeSlice(m, idx) ==
    [items_ptr |-> U32FromLe(Bytes(m, idx, 4)),
     length    |-> U64FromLe(Bytes(m, Offset(idx, 8), 8))]

\* Mutant: the pointer written as a 64-bit field, over the padding.
WritePtrWide(m, dest, ptr) == Store(m, dest, U64ToLe(ZeroExt(ptr)))

\* The two descriptor writes of read_line at dest.
WritePtr(m, dest, ptr) == Store(m, dest, U32ToLe(ptr))

\* Mutant: the length packed right behind the pointer, at offset 4.
WriteLenPacked(m, dest, len) == Store(m, Offset(dest, 4), U64ToLe(len))

WriteLen(m, dest, len) == Store(m, Offset(dest, 8), U64ToLe(len))

EncodeSlice(m, dest, ptr, len) == WriteLen(WritePtr(m, dest, ptr), dest, len)

----------------------------------------------------------------------------
(* The host functions.  Each is a function of what the call sees (memory,   *)
(* globals, the guest's exports, the argument, the build's overflow checks) *)
(* to its outcome: "ok" when the closure returns Ok(()), "panic" when an    *)
(* index, a slice or an unwrap panics, with the state the panic leaves.      *)

\* Mutant: an index equal to the memory's size is let through.
IndexOkInclusive(idx, off, len, chk) ==
    LET r == AddWord(idx, FromLen(off))
    IN  ~(chk /\ r.ovf) /\ LeqWord(r.val, len)

\* data[idx + off] of print_bytes: whether the index expression succeeds.
IndexOk(idx, off, len, chk) ==
    LET r == AddWord(idx, FromLen(off))
    IN  ~(chk /\ r.ovf) /\ LtWord(r.val, len)

\* Mutant: the bytes are written as a line, with a newline after them.
WrittenLn(m, start, n) == Bytes(m, start, n) \o <<10>>

\* io::stdout().write_all(string_bytes) (main.rs:57-60): the n bytes at start,
\* as they are.
Written(m, start, n) == Bytes(m, start, n)

\* print_bytes: the bytes it appends to standard output and the addresses it
\* reads, in a guest with memory m of `len` bytes (hasMemory: exported).
print_bytes_func(m, len, hasMemory, slice_ptr, chk) ==
    LET idx   == SignExt(slice_ptr)
        bad   == {j \in 1..Len(DescOffsets) : ~IndexOk(idx, DescOffsets[j], len, chk)}
        nRead == IF bad = {} THEN Len(DescOffsets)
                 ELSE (CHOOSE j \in bad : \A i \in bad : j <= i) - 1
        hdr   == {AddWord(idx, FromLen(DescOffsets[j])).val : j \in 1..nRead}
        d     == DecodeSlice(m, idx)
        start == ZeroExt(d.items_ptr)
        n     == LenAsUsize(d.length)
        endR  == AddWord(start, n)
    IN  IF ~hasMemory
        THEN [outcome |-> "panic", out |-> <<>>, reads |-> {}]
        ELSE IF bad # {}
        THEN [outcome |-> "panic", out |-> <<>>, reads |-> hdr]
        ELSE IF ~RangeOk(Exact(start), endR, len, chk)
        THEN [outcome |-> "panic", out |-> <<>>, reads |-> hdr]
        ELSE [outcome |-> "ok",
              out     |-> Written(m, start, ToNat(n)),
              reads   |-> hdr \cup {Offset(start, i - 1) : i \in 1..ToNat(n)}]

\* What a read_line call leaves: its outcome, the step that panicked, the
\* memory and the tstack bits.
Result(o, a, mm, tt) == [outcome |-> o, at |-> a, mem |-> mm, tstack |-> tt]

\* The two descriptor writes at dest (main.rs:102-108, 115-121): the slice
\* data[dest..dest + 4], then data[dest + 8..dest + 16].
WriteDesc(m, len, ts, dest, ptr, length, chk) ==
    IF ~RangeOk(Exact(dest), AddWord(dest, FromLen(4)), len, chk)
    THEN Result("panic", "dest", m, ts)
    ELSE IF ~RangeOk(AddWord(dest, FromLen(8)), AddWord(dest, FromLen(16)), len, chk)
    THEN Result("panic", "dest", WritePtr(m, dest, ptr), ts)
    ELSE Result("ok", "none", EncodeSlice(m, dest, ptr, length), ts)

\* The Ok arm (main.rs:80-111): `line` is the line read, empty at
\* end-of-stream.
ReadLineOk(m, len, hasMemory, tstackKind, ts, dest, line, chk) ==
    LET cur       == SignExt(ts)
        input_ptr == Trunc32(cur)
        input_len == FromLen(Len(line))
        endR      == AddWord(cur, FromLen(Len(line)))
        m1        == Store(m, cur, line)
        new_tstack == Trunc32(endR.val)
    IN  IF ~hasMemory THEN Result("panic", "memory", m, ts)
        ELSE IF tstackKind \in {"none", "mut_i64"} THEN Result("panic", "tstack", m, ts)
        ELSE IF ~RangeOk(Exact(cur), endR, len, chk) THEN Result("panic", "reserve", m, ts)
        ELSE IF tstackKind = "const_i32" THEN Result("panic", "set", m1, ts)
        ELSE WriteDesc(m1, len, new_tstack, dest, input_ptr, input_len, chk)

\* Mutant: the Err arm writes the descriptor of an empty reservation,
\* {cursor, 0}, as the Ok arm does at end-of-stream.
ReadLineErrCursor(m, len, hasMemory, ts, dest, chk) ==
    IF ~hasMemory THEN Result("panic", "memory", m, ts)
    ELSE WriteDesc(m, len, ts, dest, Trunc32(SignExt(ts)), WordZero, chk)

\* The Err arm (main.rs:112-124).
ReadLineErr(m, len, hasMemory, ts, dest, chk) ==
    IF ~hasMemory THEN Result("panic", "memory", m, ts)
    ELSE WriteDesc(m, len, ts, dest, U32Zero, WordZero, chk)

\* read_line: what the call leaves, for the outcome rd of the standard-input
\* read: "ok" with the line read, or "err".
read_line_func(m, len, hasMemory, tstackKind, ts, dest_arg, rd, chk) ==
    IF rd.kind = "ok"
    THEN ReadLineOk(m, len, hasMemory, tstackKind, ts, SignExt(dest_arg), rd.line, chk)
    ELSE ReadLineErr(m, len, hasMemory, ts, SignExt(dest_arg), chk)

\* print: println!("{}", n), the decimal text of n and a newline.
RECURSIVE Digits(_)
Digits(n) == IF n < 10 THEN <<48 + n>> ELSE Digits(n \div 10) \o <<48 + (n % 10)>>

print_func(n) == (IF n < 0 THEN <<45>> \o Digits(-n) ELSE Digits(n)) \o <<10>>

----------------------------------------------------------------------------
(* The guest module and the environment's inputs.                           *)

\* The imports array of main, in order, and each host function's type
\* (its parameter's value type; all return nothing).
HostImports == <<"print", "print_bytes", "read_line">>

ParamType(name) == IF name = "print" THEN "i64" ELSE "i32"

\* Instance::new: imports are matched to the module's declared imports by
\* position, and each must have the declared type.
InstanceNew(declared) ==
    /\ Len(declared) = Len(HostImports)
    /\ \A i \in 1..Len(declared) : ParamType(declared[i]) = ParamType(HostImports[i])

\* The host function the guest reaches when it calls its import `name`.
Bound(declared, name) ==
    HostImports[CHOOSE i \in 1..Len(declared) : declared[i] = name]

Declares(declared, name) == \E i \in 1..Len(declared) : declared[i] = name

\* i32 values as their bits.
I32(n) == <<n % LimbBase, n \div LimbBase>>
I32Max == <<LimbMax, LimbBase \div 2 - 1>>
I32MinusOne == <<LimbMax, LimbMax>>

EmptyMem == [x \in {} |-> 0]

\* A data segment: five descriptors, at 0, 16, 32, 48 and 64, the text
\* "hi" at 96, and a non-zero padding byte in the descriptor at 16.
TableImage ==
    LET a(n)  == FromLen(n)
        m0    == Store(EmptyMem, a(96), <<104, 105>>)
        m1    == EncodeSlice(m0, a(0), I32(96), FromLen(2))
        m2    == EncodeSlice(m1, a(16), I32(LimbMax), FromLen(2))
        m3    == EncodeSlice(m2, a(32), I32(8), <<LimbMax - 3, LimbMax, LimbMax, LimbMax>>)
        m4    == EncodeSlice(m3, a(48), I32MinusOne, FromLen(1))
        m5    == EncodeSlice(m4, a(64), I32(96), <<2, 0, 1, 0>>)
    IN  Store(m5, a(20), <<7>>)

Image(name) == IF name = "table" THEN TableImage ELSE EmptyMem

BaseGuest ==
    [readable |-> TRUE, valid |-> TRUE, imports |-> HostImports,
     hasMemory |-> TRUE, tstackKind |-> "mut_i32", hasMain |-> TRUE,
     pages |-> 1, tstackInit |-> U32Zero, image |-> "table"]

HalfPages == LimbBase \div 2     \* 2^15 pages: a memory of 2^31 bytes

GuestModules ==
    {BaseGuest}
    \cup {[BaseGuest EXCEPT !.readable = FALSE], [BaseGuest EXCEPT !.valid = FALSE],
          [BaseGuest EXCEPT !.hasMain = FALSE]}
    \cup {[BaseGuest EXCEPT !.imports = i] :
            i \in {<<"print", "read_line", "print_bytes">>,
                   <<"print_bytes", "print", "read_line">>,
                   <<"print", "print_bytes">>, <<"print">>}}
    \cup {[BaseGuest EXCEPT !.hasMemory = FALSE, !.pages = 0, !.image = "zero"]}
    \cup {[BaseGuest EXCEPT !.tstackKind = t] : t \in {"const_i32", "mut_i64", "none"}}
    \cup {[BaseGuest EXCEPT !.pages = HalfPages]}

\* Arguments the guest passes to print_bytes and to read_line.
PrintBytesArgs == {I32(0), I32(16), I32(32), I32(48), I32(64),
                   I32(LimbMax - 14), I32(LimbMax - 1), I32MinusOne}

ReadLineArgs == {I32(0), I32(16), I32(LimbMax - 14), I32(LimbMax - 1), I32MinusOne}

\* The argument the guest passes to print.
PrintArgs == {-42}

\* Lines standard input can deliver: the empty line "\n", and a last line
\* "hi..." of MaxLineLen bytes that end-of-stream cuts short of a terminator.
Text(n) == [i \in 1..n |-> 103 + i]

Lines == {<<10>>, Text(MaxLineLen)}

\* What stdin.lock().read_line(&mut line) can return: Ok with a line, Ok(0)
\* with line left empty at end-of-stream, or Err.
ReadOutcomes ==
    {[kind |-> "ok", line |-> l] : l \in Lines \cup {<<>>}}
    \cup {[kind |-> "err", line |-> <<>>]}

\* Values the guest stores into its tstack global, and where it stores a
\* byte into its memory.
GuestTstackVals == {I32(3), I32(LimbMax), I32Max, I32MinusOne}
GuestStoreAddrs == {FromLen(96)}

NoCall == [op |-> "none"]

----------------------------------------------------------------------------
(* The driver: main, from the argument check to the process's exit.         *)

Init ==
    /\ pc = "args"
    /\ \/ argc \in {1, 3} /\ guest = BaseGuest
       \/ argc = 2 /\ guest \in GuestModules
    /\ pages = 0
    /\ mem = EmptyMem
    /\ tstack = U32Zero
    /\ stdout = <<>>
    /\ stderr = 0
    /\ exitCode = -1
    /\ steps = 0
    /\ last = NoCall
    /\ resv = <<>>

\* The process ends with `code`, after one report on standard error: the
\* usage message, main's returned Err, or a panic's message.
Exit(code) ==
    /\ pc' = "exit"
    /\ exitCode' = code
    /\ stderr' = stderr + 1

\* Mutant: only a missing argument is a usage error; extra ones are ignored.
CheckArgsTooFew ==
    /\ pc = "args"
    /\ IF argc < 2 THEN Exit(1)
       ELSE pc' = "read" /\ UNCHANGED <<exitCode, stderr>>
    /\ UNCHANGED <<argc, guest, pages, mem, tstack, stdout, steps, last, resv>>

\* main.rs:7-11.
CheckArgs ==
    /\ pc = "args"
    /\ IF argc # 2 THEN Exit(1)
       ELSE pc' = "read" /\ UNCHANGED <<exitCode, stderr>>
    /\ UNCHANGED <<argc, guest, pages, mem, tstack, stdout, steps, last, resv>>

\* main.rs:14: fs::read(wasm_file)?
ReadFile ==
    /\ pc = "read"
    /\ IF guest.readable THEN pc' = "compile" /\ UNCHANGED <<exitCode, stderr>>
       ELSE Exit(1)
    /\ UNCHANGED <<argc, guest, pages, mem, tstack, stdout, steps, last, resv>>

\* main.rs:17-19: Module::new(&engine, &wasm_bytes)?
Compile ==
    /\ pc = "compile"
    /\ IF guest.valid THEN pc' = "instantiate" /\ UNCHANGED <<exitCode, stderr>>
       ELSE Exit(1)
    /\ UNCHANGED <<argc, guest, pages, mem, tstack, stdout, steps, last, resv>>

\* main.rs:131-134: Instance::new(&mut store, &module, &imports)?  The
\* instance's memory and globals get the module's initial values.
Instantiate ==
    /\ pc = "instantiate"
    /\ IF InstanceNew(guest.imports)
       THEN /\ pc' = "lookup"
            /\ pages' = guest.pages
            /\ mem' = Image(guest.image)
            /\ tstack' = guest.tstackInit
            /\ UNCHANGED <<exitCode, stderr>>
       ELSE Exit(1) /\ UNCHANGED <<pages, mem, tstack>>
    /\ UNCHANGED <<argc, guest, stdout, steps, last, resv>>

\* Mutant: the entry point is invoked without being looked up.
LookupUnchecked ==
    /\ pc = "lookup"
    /\ pc' = "guest"
    /\ UNCHANGED <<argc, guest, pages, mem, tstack, stdout, stderr, exitCode, steps, last, resv>>

\* main.rs:137: instance.get_typed_func::<(), ()>(&mut store, "main")?
Lookup ==
    /\ pc = "lookup"
    /\ IF guest.hasMain THEN pc' = "guest" /\ UNCHANGED <<exitCode, stderr>>
       ELSE Exit(1)
    /\ UNCHANGED <<argc, guest, pages, mem, tstack, stdout, steps, last, resv>>

\* What every host call records of the state it was made in; `seen` is the
\* memory size the host call before it was made in, -1 for the first.
Call(op, name, arg) ==
    [op |-> op, declared |-> name, arg |-> arg, step |-> steps + 1, oldMem |-> mem,
     oldPages |-> pages, oldTstack |-> tstack, oldStdout |-> stdout,
     seen |-> IF last = NoCall THEN -1 ELSE last.oldPages]

\* A host function returned Ok(()): the guest runs on.  It panicked: the
\* panic unwinds through main_func.call and main, and the process exits 101.
Return(outcome) ==
    IF outcome = "ok" THEN pc' = "guest" /\ UNCHANGED <<exitCode, stderr>>
    ELSE Exit(101)

\* Mutant: guest code also runs while a host call is blocked in its read
\* of standard input, as it could on a second thread.
RunningWhileBlocked == pc \in {"guest", "stdin"} /\ steps < MaxSteps

\* The guest is running main (main.rs:138) and may take another step.
Running == pc = "guest" /\ steps < MaxSteps

\* Mutant: the host keeps the memory size it saw at its previous call (at
\* instantiation, for the first call).
DataLenAtLastCall == MemLen(IF last = NoCall THEN guest.pages ELSE last.oldPages)

\* memory.data(&caller).len() (main.rs:35), memory.data_mut(&mut caller).len()
\* (main.rs:92, 115): the memory's size when the host function runs.
DataLen == MemLen(pages)

\* Mutant: print formats its text in the guest's scratch area, at the
\* cursor, before writing it out.
CallPrintScratch ==
    /\ Running
    /\ \E name \in {"print", "print_bytes", "read_line"}, n \in PrintArgs :
        /\ Declares(guest.imports, name)
        /\ Bound(guest.imports, name) = "print"
        /\ stdout' = stdout \o print_func(n)
        /\ mem' = Store(mem, SignExt(tstack), print_func(n))
        /\ last' = Call("print", name, n) @@ [outcome |-> "ok"]
    /\ steps' = steps + 1
    /\ UNCHANGED <<pc, argc, guest, pages, tstack, stderr, exitCode, resv>>

\* The guest calls the import bound to print (main.rs:22-24).
CallPrint ==
    /\ Running
    /\ \E name \in {"print", "print_bytes", "read_line"}, n \in PrintArgs :
        /\ Declares(guest.imports, name)
        /\ Bound(guest.imports, name) = "print"
        /\ stdout' = stdout \o print_func(n)
        /\ last' = Call("print", name, n) @@ [outcome |-> "ok"]
    /\ steps' = steps + 1
    /\ UNCHANGED <<pc, argc, guest, pages, mem, tstack, stderr, exitCode, resv>>

\* The guest calls the import bound to print_bytes (main.rs:27-64).
CallPrintBytes ==
    /\ Running
    /\ \E name \in {"print", "print_bytes", "read_line"}, a \in PrintBytesArgs, chk \in BOOLEAN :
        /\ Declares(guest.imports, name)
        /\ Bound(guest.imports, name) = "print_bytes"
        /\ \E r \in {print_bytes_func(mem, DataLen, guest.hasMemory, a, chk)} :
               /\ stdout' = stdout \o r.out
               /\ last' = Call("print_bytes", name, a)
                             @@ [outcome |-> r.outcome, reads |-> r.reads]
               /\ Return(r.outcome)
    /\ steps' = steps + 1
    /\ UNCHANGED <<argc, guest, pages, mem, tstack, resv>>

\* The outcome of a standard-input read that has not returned yet.
Blocked == [kind |-> "blocked", line |-> <<>>]

\* The guest calls the import bound to read_line (main.rs:67-79): the host
\* function takes its argument and blocks in stdin.lock().read_line.
CallReadLine ==
    /\ Running
    /\ \E name \in {"print", "print_bytes", "read_line"}, a \in ReadLineArgs :
        /\ Declares(guest.imports, name)
        /\ Bound(guest.imports, name) = "read_line"
        /\ last' = Call("read_line", name, a)
                      @@ [outcome |-> "blocked", at |-> "none", rd |-> Blocked]
    /\ pc' = "stdin"
    /\ steps' = steps + 1
    /\ UNCHANGED <<argc, guest, pages, mem, tstack, stdout, stderr, exitCode, resv>>

\* The standard-input read returns and read_line runs to its end
\* (main.rs:79-127): it reads the cursor, copies the line, writes the cursor
\* back and writes the descriptor.
StdinReturns ==
    /\ pc = "stdin"
    /\ \E rd \in ReadOutcomes, chk \in BOOLEAN :
        \E r \in {read_line_func(mem, DataLen, guest.hasMemory, guest.tstackKind,
                                 tstack, last.arg, rd, chk)} :
            /\ mem' = r.mem
            /\ tstack' = r.tstack
            /\ last' = [last EXCEPT !.outcome = r.outcome, !.at = r.at, !.rd = rd]
            /\ resv' = IF r.outcome = "ok" /\ rd.kind = "ok"
                       THEN Append(resv, [offset |-> tstack, n |-> Len(rd.line)])
                       ELSE resv
            /\ Return(r.outcome)
    /\ UNCHANGED <<argc, guest, pages, stdout, steps>>

\* Guest instructions between host calls: memory.grow, a byte store, and
\* global.set on tstack.  (main's return and trap are steps too.)  A
\* memory.grow is bounded by MaxGrow and is not counted in `steps`.
GuestGrow ==
    /\ Running
    /\ guest.hasMemory
    /\ pages < guest.pages + MaxGrow
    /\ pages < LimbBase
    /\ pages' = pages + 1
    /\ UNCHANGED <<pc, argc, guest, mem, tstack, stdout, stderr, exitCode, steps, last, resv>>

GuestStore ==
    /\ Running
    /\ \E a \in GuestStoreAddrs :
        /\ LtWord(a, MemLen(pages))
        /\ mem' = Store(mem, a, <<1>>)
    /\ steps' = steps + 1
    /\ UNCHANGED <<pc, argc, guest, pages, tstack, stdout, stderr, exitCode, last, resv>>

GuestSetTstack ==
    /\ Running
    /\ guest.tstackKind = "mut_i32"
    /\ \E v \in GuestTstackVals : tstack' = v
    /\ resv' = <<>>
    /\ steps' = steps + 1
    /\ UNCHANGED <<pc, argc, guest, pages, mem, stdout, stderr, exitCode, last>>

\* main.rs:138-140: the guest's main returns, or traps and call's Err is
\* returned from main.
MainReturns ==
    /\ Running
    /\ pc' = "exit"
    /\ exitCode' = 0
    /\ steps' = steps + 1
    /\ UNCHANGED <<argc, guest, pages, mem, tstack, stdout, stderr, last, resv>>

MainTraps ==
    /\ Running
    /\ Exit(1)
    /\ steps' = steps + 1
    /\ UNCHANGED <<argc, guest, pages, mem, tstack, stdout, last, resv>>

Next ==
    \/ CheckArgs \/ ReadFile \/ Compile \/ Instantiate \/ Lookup
    \/ CallPrint \/ CallPrintBytes \/ CallReadLine \/ StdinReturns
    \/ GuestGrow \/ GuestStore \/ GuestSetTstack
    \/ MainReturns \/ MainTraps

Spec == Init /\ [][Next]_vars

----------------------------------------------------------------------------
(* Vocabulary of the properties.                                            *)

\* The last host call was `op`, it has ended, and since then the guest has
\* run no instruction other than memory.grow.
Fresh(op) == last.op = op /\ last.step = steps /\ pc # "stdin"

\* The call's address argument as the host uses it (dest_addr, slice_ptr as
\* usize), and the memory size the call saw.
ArgAddr == SignExt(last.arg)

OldLen == MemLen(last.oldPages)

\* a + 16 <= len, in the integers.
HeaderInBounds(a, len) ==
    LET e == AddWord(a, FromLen(16)) IN ~e.ovf /\ LeqWord(e.val, len)

\* items_ptr + length <= len, in the integers.
SliceInBounds(d, len) ==
    LET e == AddWord(ZeroExt(d.items_ptr), d.length) IN ~e.ovf /\ LeqWord(e.val, len)

\* The bytes of a descriptor at dest that carry its two fields.
DescFields(dest) == {Offset(dest, i) : i \in (0..3) \cup (8..15)}

\* old + k for the i32 `old`, in the integers (as a 64-bit two's complement
\* number), and an i32's value in the same form.
PlusLen(old, k) == AddWord(SignExt(old), FromLen(k)).val

\* a <= b for i32 values.
SignedLeq(a, b) ==
    IF Negative(a) = Negative(b) THEN LeqWord(ZeroExt(a), ZeroExt(b)) ELSE Negative(a)

\* A read_line call that read a line (its Ok arm) and returned normally.
ReadLineReturned ==
    Fresh("read_line") /\ last.outcome = "ok" /\ last.rd.kind = "ok"

----------------------------------------------------------------------------
C2_AllocatorMonotone ==
    /\ \A i \in 1..(Len(resv) - 1) :
         LeqWord(PlusLen(resv[i].offset, resv[i].n), SignExt(resv[i + 1].offset))
    /\ resv # <<>> => SignedLeq(resv[Len(resv)].offset, tstack)

(* C3.  A read_line call made when standard input is at end-of-stream       *)
(* writes the sentinel descriptor {0, 0} at dest_addr and does not advance  *)
(* the cursor.                                                              *)
C3_EndOfStreamSentinel ==
    (ReadLineReturned /\ last.rd.line = <<>>) =>
        /\ DecodeSlice(mem, ArgAddr) = [items_ptr |-> U32Zero, length |-> WordZero]
        /\ tstack = last.oldTstack

C5_HeaderOutOfBoundsFails ==
    (Fresh("print_bytes") /\ ~HeaderInBounds(ArgAddr, OldLen)) =>
        /\ last.outcome = "panic"
        /\ stdout = last.oldStdout
        /\ \A a \in last.reads : LtWord(a, OldLen)

\* A descriptor that starts inside the memory and ends outside it.
C5_Witness ==
    /\ Fresh("print_bytes")
    /\ ~HeaderInBounds(ArgAddr, OldLen)
    /\ last.reads # {}
    /\ last.outcome = "panic"

(* C6.  print_bytes rejects every descriptor whose items_ptr + length       *)
(* exceeds the memory size, also where the sum overflows the host word: the *)
(* call fails and nothing is written to standard output.                    *)
C6_SliceOutOfBoundsFails ==
    (/\ Fresh("print_bytes")
     /\ HeaderInBounds(ArgAddr, OldLen)
     /\ ~SliceInBounds(DecodeSlice(last.oldMem, ArgAddr), OldLen)) =>
        /\ last.outcome = "panic"
        /\ stdout = last.oldStdout

\* A descriptor whose items_ptr + length overflows 64 bits.
C6_Witness ==
    /\ Fresh("print_bytes")
    /\ HeaderInBounds(ArgAddr, OldLen)
    /\ LET d == DecodeSlice(last.oldMem, ArgAddr)
       IN  AddWord(ZeroExt(d.items_ptr), d.length).ovf
    /\ last.outcome = "panic"

C9_ImportOrderChecked ==
    /\ pc \in {"lookup", "guest"} => guest.imports = HostImports
    /\ last.op # "none" => last.declared = last.op

(* C10.  If the guest does not export a mutable i32 global named tstack,    *)
(* the run fails at setup, before the entry point is invoked; the failure   *)
(* is never first detected inside a read_line call.                         *)
C10_TstackCheckedAtSetup ==
    guest.tstackKind # "mut_i32" =>
        /\ pc # "guest"
        /\ ~(last.op = "read_line" /\ last.at \in {"tstack", "set"})

(* C11.  Driver outcome: the process exits with status 0 only if the load, *)
(* the instantiation and the single invocation of the entry point all       *)
(* succeed; a load, instantiation, entry-lookup or entry-invocation failure *)
(* ends the run with a non-zero status; the entry point is invoked at most  *)
(* once and no step is retried.                                             *)

\* The driver's positions in the order main passes them; at 5 the entry
\* point is running, in guest code or in a host call it made.
Stage(p) ==
    CASE p = "args" -> 0 [] p = "read" -> 1 [] p = "compile" -> 2
      [] p = "instantiate" -> 3 [] p = "lookup" -> 4 [] p \in {"guest", "stdin"} -> 5
      [] p = "exit" -> 6

\* Nothing before the entry point's invocation can fail for this run.
SetupSucceeds ==
    /\ argc = 2
    /\ guest.readable
    /\ guest.valid
    /\ InstanceNew(guest.imports)
    /\ guest.hasMain

\* The step the driver is at fails: the file cannot be read, the module
\* does not compile, does not instantiate, or has no entry point.
StageFails ==
    \/ pc = "read" /\ ~guest.readable
    \/ pc = "compile" /\ ~guest.valid
    \/ pc = "instantiate" /\ ~InstanceNew(guest.imports)
    \/ pc = "lookup" /\ ~guest.hasMain

C11_DriverOutcome ==
    [][/\ IF Stage(pc) = 5 THEN Stage(pc') >= 5 ELSE Stage(pc') > Stage(pc)
       /\ Stage(pc') = 5 => Stage(pc) \in {4, 5}
       /\ pc = "lookup" => (pc' = "guest" <=> SetupSucceeds) /\ steps = 0 /\ last = NoCall
       /\ exitCode' = 0 =>
            /\ pc = "guest"
            /\ SetupSucceeds
            /\ stderr' = stderr
            /\ last' = last
       /\ StageFails => (pc' = "exit" /\ exitCode' > 0)
       /\ stderr' # stderr => (pc' = "exit" /\ exitCode' > 0)
       /\ (last' # last /\ last'.outcome = "panic") => (pc' = "exit" /\ exitCode' > 0)
       /\ pc' = "exit" => exitCode' >= 0
       /\ pc' # "exit" => exitCode' = -1
      ]_vars

\* The entry point returned after a host call and the process exited 0.
C11_Witness ==
    /\ pc = "exit"
    /\ exitCode = 0
    /\ last.op # "none"

(* C12.  Invoked with 0 or with 2 or more positional arguments, the process *)
(* exits with status 1 and never reads or loads a module file: no load,     *)
(* instantiation or entry-point step occurs.                                *)
C12_UsageError ==
    argc # 2 =>
        /\ pc \in {"args", "exit"}
        /\ pc = "exit" => (exitCode = 1 /\ stderr = 1)
        /\ pages = 0 /\ mem = EmptyMem /\ steps = 0 /\ last = NoCall /\ stdout = <<>>

\* Two positional arguments: the usage error has ended the process.
C12_Witness ==
    /\ argc = 3
    /\ pc = "exit"
    /\ exitCode = 1

(* C13.  Bounds are checked against the memory size at the time of each    *)
(* host call: after the guest grows its memory between two host calls, a    *)
(* print_bytes or read_line call whose offsets are within the new size      *)
(* succeeds and one whose offsets exceed the size current at that call      *)
(* fails; no size from an earlier call is reused.                           *)

\* old cursor + k <= len, in the integers.
ReserveInBounds(old, k, len) ==
    LET e == AddWord(SignExt(old), FromLen(k)) IN ~e.ovf /\ LeqWord(e.val, len)

C14_PrintsLeaveGuestState ==
    (Fresh("print") \/ Fresh("print_bytes")) =>
        /\ mem = last.oldMem
        /\ tstack = last.oldTstack

\* A print_bytes call that failed, made with the cursor moved and a line in
\* the memory.
C14_Witness ==
    /\ Fresh("print_bytes")
    /\ last.outcome = "panic"
    /\ last.oldTstack # U32Zero
    /\ last.oldMem # TableImage

C16_FailedReadLineLeavesState ==
    (/\ Fresh("read_line")
     /\ last.outcome = "panic"
     /\ last.at \in {"reserve", "dest"}) =>
        /\ mem = last.oldMem
        /\ tstack = last.oldTstack

(* C17.  A successful read_line(dest_addr) of k bytes modifies guest       *)
(* memory only in [old cursor, old cursor + k), [dest_addr, dest_addr + 4)  *)
(* and [dest_addr + 8, dest_addr + 16); the padding bytes [dest_addr + 4,   *)
(* dest_addr + 8) and every other byte keep their values; the sentinel path *)
(* modifies only the two descriptor fields.                                 *)
(* As stated this fails where the reserved range reaches into the padding.  *)

\* The addresses whose byte the last call changed.
Changed == {a \in DOMAIN mem \cup DOMAIN last.oldMem : Load(mem, a) # Load(last.oldMem, a)}

\* [old cursor, old cursor + k) of the last read_line call, empty on the
\* sentinel path; and the padding of the descriptor at dest.
LineRange ==
    IF last.rd.kind = "ok"
    THEN {Offset(SignExt(last.oldTstack), i - 1) : i \in 1..Len(last.rd.line)}
    ELSE {}

Padding(dest) == {Offset(dest, i) : i \in 4..7}

C17_ReadLineFrame ==
    (Fresh("read_line") /\ last.outcome = "ok") =>
        /\ Changed \subseteq LineRange \cup DescFields(ArgAddr)
        /\ Changed \cap Padding(ArgAddr) = {}

(* C17, amended: a successful read_line changes no byte outside [old        *)
(* cursor, old cursor + k) and the two descriptor fields (nothing outside   *)
(* the two fields on the sentinel path); the padding bytes keep their       *)
(* values except those inside the reserved range, which hold line bytes.    *)
C17_ReadLineFrameOutsideLine ==
    (Fresh("read_line") /\ last.outcome = "ok") =>
        /\ Changed \subseteq LineRange \cup DescFields(ArgAddr)
        /\ \A a \in Padding(ArgAddr) \ LineRange : Load(mem, a) = Load(last.oldMem, a)
        /\ \A a \in Padding(ArgAddr) \cap LineRange :
             \E i \in 1..Len(last.rd.line) :
                /\ a = Offset(SignExt(last.oldTstack), i - 1)
                /\ Load(mem, a) = last.rd.line[i]

\* A line delivered with its descriptor at 16, whose padding was not zero.
C17_Witness ==
    /\ Fresh("read_line")
    /\ last.outcome = "ok"
    /\ last.rd.line = Text(MaxLineLen)
    /\ last.arg = I32(16)
    /\ Load(last.oldMem, FromLen(20)) = 7
    /\ Load(mem, FromLen(20)) = 7
    /\ Changed # {}

(* C18.  The cursor value read_line writes back is exactly old + k as a    *)
(* signed 32-bit integer: whenever old + k is not representable (old + k >  *)
(* 2^31 - 1, or the cursor read is negative) the call fails with the cursor *)
(* unchanged, and a wrapped or negative value is never stored in tstack.    *)
C18_CursorNeverWraps ==
    (Fresh("read_line") /\ last.rd.kind = "ok") =>
        LET old == last.oldTstack
            sum == PlusLen(old, Len(last.rd.line))
        IN  /\ (Negative(old) \/ ~LeqWord(sum, ZeroExt(I32Max))) =>
                 (last.outcome = "panic" /\ tstack = old)
            /\ tstack # old => (~Negative(tstack) /\ SignExt(tstack) = sum)

----------------------------------------------------------------------------
(* The slice codec on its own: a descriptor is encoded at an address of a   *)
(* one-page memory as read_line encodes it, then decoded there as           *)
(* print_bytes decodes it.                                                  *)

CodecAddrs == {FromLen(0), FromLen(4), FromLen(16), FromLen(LimbMax - 15)}

CodecPtrs == {U32Zero, I32(96), I32(LimbMax), I32Max, <<0, LimbBase \div 2>>, I32MinusOne}

CodecLens == {WordZero, FromLen(2), <<0, 0, 1, 0>>, <<258, 772, 1286, 1800>>,
              <<0, 0, 0, LimbBase \div 2>>, <<LimbMax, LimbMax, LimbMax, LimbMax>>}

CodecInit ==
    /\ pc = "encode"
    /\ argc = 2
    /\ guest = BaseGuest
    /\ pages = 1
    /\ mem \in {EmptyMem, TableImage}
    /\ tstack = U32Zero
    /\ stdout = <<>>
    /\ stderr = 0
    /\ exitCode = -1
    /\ steps = 0
    /\ \E a \in CodecAddrs, p \in CodecPtrs, l \in CodecLens :
         last = [op |-> "codec", addr |-> a, items_ptr |-> p, length |-> l]
    /\ resv = <<>>

CodecEncode ==
    /\ pc = "encode"
    /\ mem' = EncodeSlice(mem, last.addr, last.items_ptr, last.length)
    /\ pc' = "decode"
    /\ UNCHANGED <<argc, guest, pages, tstack, stdout, stderr, exitCode, steps, last, resv>>

CodecDecode ==
    /\ pc = "decode"
    /\ last' = last @@ [decoded |-> DecodeSlice(mem, last.addr)]
    /\ pc' = "done"
    /\ UNCHANGED <<argc, guest, pages, mem, tstack, stdout, stderr, exitCode, steps, resv>>

CodecNext == CodecEncode \/ CodecDecode

CodecSpec == CodecInit /\ [][CodecNext]_vars

(* C8.  Slice codec round trip: for every addr with addr + 16 within the    *)
(* memory and every (items_ptr: u32, length: u64), decoding at addr a       *)
(* descriptor encoded at addr yields exactly (items_ptr, length).           *)
C8_CodecRoundTrip ==
    pc = "done" =>
        last.decoded = [items_ptr |-> last.items_ptr, length |-> last.length]

\* The largest pointer and length, encoded over an earlier descriptor.
C8_Witness ==
    /\ pc = "done"
    /\ last.items_ptr = I32MinusOne
    /\ last.length = <<LimbMax, LimbMax, LimbMax, LimbMax>>
    /\ last.addr = FromLen(16)
    /\ last.decoded.length = last.length
    /\ Load(mem, FromLen(96)) = 104

====
